---- MODULE Spec2Model ----
(***************************************************************************)
(* Incremental document indexing and retrieval engine of LLM_RAG.          *)
(*                                                                         *)
(* The model covers SyncService (scan, diff, delete, process, embed,       *)
(* upsert), DocumentIngestService.process_document (chunk ids and          *)
(* metadata), VectorStoreRepository (upsert_batch, delete_by_source,       *)
(* delete_by_ids, get_indexed_file_state, query_similar), the two          *)
(* retrieval entry points (the agent retriever and RagPipeline.query) and  *)
(* IngestionService.ingest_chunks.                                         *)
(*                                                                         *)
(* Abstractions:                                                           *)
(*  - hashlib.sha1 is modelled as an injective tagging of its input: the   *)
(*    id of a chunk is the string "sha1(<id_source>)";                     *)
(*  - st_mtime is a whole number of seconds m, printed by the f-string as  *)
(*    "m.0"; st_size is counted in chunk-size units, so the splitter       *)
(*    yields st_size chunks and an empty file yields none;                 *)
(*  - every file has an allowed extension;                                 *)
(*  - the clock (now_iso) advances once per sync run;                      *)
(*  - a failure of a collaborator (os.stat, loader, embedding provider,    *)
(*    store) is an input of the step that calls it;                        *)
(*  - the vector engine behind the repository validates the record set of  *)
(*    an upsert (lists of equal length, ids unique within the call) and    *)
(*    raises before it writes; a later call replaces a record whole;       *)
(*  - a text is the sequence of the code points of its characters; the      *)
(*    provider's vector for a text is a tagging of the text it was sent;   *)
(*  - now_iso() inside process_document gives one ingestion time per file  *)
(*    of a run: the pair of the run's start time and the file's position;  *)
(*  - a run is interleaved with other activity at every call it makes of   *)
(*    the file system and of the engine: the os.stat of each file of the   *)
(*    scan, indexed-state read, collection.get, collection.delete,         *)
(*    os.stat, load, embed, upsert; the listing of a directory by os.walk  *)
(*    and the os.stat of the file it holds are one step;                   *)
(*  - the tree at start-up is arbitrary; afterwards at most MaxEvents      *)
(*    disturbances happen: changes of the tree, failures of a collaborator *)
(*    of a run, terminations of a run.                                     *)
(***************************************************************************)
EXTENDS Integers, Sequences, FiniteSets, TLC

VARIABLES
    fs,      \* the file system: path -> [exists, mtime, size]
    store,   \* the Chroma collection: id -> [document, embedding, metadata]
    clock,   \* wall clock, read by now_iso()
    run,     \* one record per SyncService.run invocation slot
    prev,    \* how the most recent sync run ended, and on which target
    budget,  \* the calls of run and the disturbances that may still happen
    qres,    \* how the retrieval call that has just returned ended: what it
             \* returned, or that it raised (failed: its embedding call failed)
    pin,     \* input of the pure function under check (pure specifications)
    pout     \* its output

vars == <<fs, store, clock, run, prev, budget, qres, pin, pout>>

(***************************************************************************)
(* Bounds                                                                  *)
(***************************************************************************)
MaxMTime == 2
MaxSize == 2
MaxRuns == 2
MaxEvents == 2

Paths == {"docs/a.txt", "up/b.txt"}
Targets == {".", "docs"}
Sessions == {"system", "A", "B"}
\* the sessions whose documents are synced, and the sessions that ask
SyncSessions == {"system", "B"}
QuerySessions == {"A", "B"}
Runs == {1}

MTimes == 1..MaxMTime
Sizes == 0..MaxSize

\* os.path.dirname of a path relative to the project root
DirOf(p) == IF p = "docs/a.txt" THEN "docs" ELSE "up"

\* os.walk(target) visits p
InTarget(p, target) == target = "." \/ DirOf(p) = target

NoFile == [exists |-> FALSE, mtime |-> 0, size |-> 0]

(***************************************************************************)
(* utils/file_utils.py and DocumentIngestService.process_document          *)
(***************************************************************************)

\* get_file_info: the physical facts of a file (os.stat)
get_file_info(p) == [file_mtime |-> fs[p].mtime, file_size |-> fs[p].size]

\* str() of a float holding a whole number of seconds
FormatFloat(m) == ToString(m) \o ".0"

\* the variant that drops the separators of the id source
IdSourceNoSep(file_mtime, file_size, idx) ==
    FormatFloat(file_mtime) \o ToString(file_size) \o ToString(idx)

\* id_source = f"{file_info['file_mtime']}|{file_info['file_size']}|{idx}"
IdSource(file_mtime, file_size, idx) ==
    FormatFloat(file_mtime) \o "|" \o ToString(file_size) \o "|" \o ToString(idx)

\* hashlib.sha1(...).hexdigest(), taken to be collision free
Sha1(s) == "sha1(" \o s \o ")"

\* the code point that writes the number n in a text: ord("0") + n
Digit(n) == 48 + n

\* the text of chunk idx of the version of the file at relpath with the given
\* stat: a letter for the file and three digits (the splitter strips its
\* chunks, so the text of a chunk holds no white space)
ChunkContent(relpath, info, idx) ==
    <<IF relpath = "docs/a.txt" THEN 97 ELSE 98,
      Digit(info.file_mtime), Digit(info.file_size), Digit(idx)>>

\* the variant whose id also hashes the ingestion time
ProcessedChunkTimed(relpath, info, idx, content, session_id, now) ==
    [id |-> Sha1(IdSource(info.file_mtime, info.file_size, idx) \o "|" \o ToString(now)),
     content |-> content,
     metadata |-> [source |-> relpath,
                   file_mtime |-> info.file_mtime,
                   file_size |-> info.file_size,
                   chunk_id |-> idx,
                   ingested_at |-> now,
                   session_id |-> session_id]]

\* one element of processed_chunks (loop body of process_document)
ProcessedChunk(relpath, info, idx, content, session_id, now) ==
    [id |-> Sha1(IdSource(info.file_mtime, info.file_size, idx)),
     content |-> content,
     metadata |-> [source |-> relpath,
                   file_mtime |-> info.file_mtime,
                   file_size |-> info.file_size,
                   chunk_id |-> idx,
                   ingested_at |-> now,
                   session_id |-> session_id]]

\* split_documents(load_document(path)): one chunk per size unit
SplitCount(info) == info.file_size

\* process_document(full_file_path, relative_file_path, session_id): info is
\* what get_file_info read, loaded the version of the file the loader read
\* afterwards
process_document(relpath, info, loaded, session_id, now) ==
    [k \in 1..SplitCount(loaded) |->
        ProcessedChunk(relpath, info, k - 1, ChunkContent(relpath, loaded, k - 1),
                       session_id, now)]

(***************************************************************************)
(* EmbeddingService                                                        *)
(***************************************************************************)

\* the provider's vector for one text
Embed(content) == <<"vec", content>>

Min(a, b) == IF a < b THEN a ELSE b

\* config.EMBEDDING_BATCH_SIZE
EMBEDDING_BATCH_SIZE == 10

\* the code points str.split() and str.strip() treat as white space
\* (str.isspace): tab, LF, VT, FF, CR, FS, GS, RS, US, space, NEL, NBSP,
\* U+1680, U+2000..U+200A, U+2028, U+2029, U+202F, U+205F, U+3000
WhitespaceChars ==
    <<9, 10, 11, 12, 13, 28, 29, 30, 31, 32, 133, 160, 5760,
      8192, 8193, 8194, 8195, 8196, 8197, 8198, 8199, 8200, 8201, 8202,
      8232, 8233, 8239, 8287, 12288>>

Whitespace == {WhitespaceChars[k] : k \in DOMAIN WhitespaceChars}

\* ord(" ")
Space == 32

\* not (text and text.strip())
Blank(text) == \A k \in 1..Len(text) : text[k] \in Whitespace

\* " ".join(text.split()): leading and trailing white space removed, every
\* inner run of white space replaced by one space
Clean(text) ==
    LET Keep(k) ==
            \/ text[k] \notin Whitespace
            \/ /\ k > 1
               /\ text[k - 1] \notin Whitespace
               /\ \E j \in (k + 1)..Len(text) : text[j] \notin Whitespace
        kept == SelectSeq([k \in 1..Len(text) |-> k], Keep)
    IN [j \in 1..Len(kept) |->
            IF text[kept[j]] \in Whitespace THEN Space ELSE text[kept[j]]]

\* cleaned_texts = [" ".join(text.split()) for text in texts if text and text.strip()]
CleanedTexts(texts) ==
    LET NotBlank(k) == ~Blank(texts[k])
        kept == SelectSeq([k \in 1..Len(texts) |-> k], NotBlank)
    IN [j \in 1..Len(kept) |-> Clean(texts[kept[j]])]

\* the outcome of a call of embed_texts: whether it raised, the inputs of
\* the provider calls it made, in order, and the list it returned
EmbedRaise(calls) == [raised |-> TRUE, calls |-> calls, ret |-> <<>>]

\* embed_texts on at most EMBEDDING_BATCH_SIZE texts (lines 117-141): blank
\* texts are dropped, the rest is cleaned and sent in one provider call;
\* fails says that this call raises
EmbedCall(texts, fails) ==
    LET cleaned_texts == CleanedTexts(texts)
    IN IF cleaned_texts = <<>>
       THEN EmbedRaise(<<>>)
       ELSE IF fails
            THEN EmbedRaise(<<cleaned_texts>>)
            ELSE [raised |-> FALSE,
                  calls |-> <<cleaned_texts>>,
                  ret |-> [k \in 1..Len(cleaned_texts) |-> Embed(cleaned_texts[k])]]

\* _embed_texts_in_batches, from offset i on: batch = texts[i:i + batch_size],
\* all_embeddings.extend(embed_texts(batch)); an exception of a batch ends
\* the loop
RECURSIVE embed_texts(_, _)
RECURSIVE embed_texts_in_batches(_, _, _, _)
embed_texts_in_batches(texts, i, acc, fail_at) ==
    IF i >= Len(texts)
    THEN acc
    ELSE LET hi == Min(i + EMBEDDING_BATCH_SIZE, Len(texts))
             batch == SubSeq(texts, i + 1, hi)
             out == embed_texts(batch, IF fail_at = Len(acc.calls) + 1 THEN 1 ELSE 0)
         IN IF out.raised
            THEN EmbedRaise(acc.calls \o out.calls)
            ELSE embed_texts_in_batches(texts, i + EMBEDDING_BATCH_SIZE,
                                        [raised |-> FALSE,
                                         calls |-> acc.calls \o out.calls,
                                         ret |-> acc.ret \o out.ret],
                                        fail_at)

\* embed_texts(texts); fail_at is the number of the provider call that raises
\* (0: none)
embed_texts(texts, fail_at) ==
    IF texts = <<>>
    THEN EmbedRaise(<<>>)
    ELSE IF Len(texts) > EMBEDDING_BATCH_SIZE
         THEN embed_texts_in_batches(texts, 0,
                                     [raised |-> FALSE, calls |-> <<>>, ret |-> <<>>],
                                     fail_at)
         ELSE EmbedCall(texts, fail_at = 1)

(***************************************************************************)
(* VectorStoreRepository                                                   *)
(***************************************************************************)

\* collection.upsert of one record: insert or replace under its id
UpsertOne(st, id, document, embedding, metadata) ==
    [x \in DOMAIN st \cup {id} |->
        IF x = id
        THEN [document |-> document, embedding |-> embedding, metadata |-> metadata]
        ELSE st[x]]

\* the entries of a batch from position k on, written in order
RECURSIVE UpsertFrom(_, _, _, _, _, _)
UpsertFrom(st, ids, documents, embeddings, metadatas, k) ==
    IF k > Len(ids) THEN st
    ELSE UpsertFrom(UpsertOne(st, ids[k], documents[k], embeddings[k], metadatas[k]),
                    ids, documents, embeddings, metadatas, k + 1)

\* an id occurs twice in the list
HasDuplicates(ids) == \E i, j \in DOMAIN ids : i # j /\ ids[i] = ids[j]

\* collection.upsert validates its record set before it writes anything: it
\* raises for lists of unequal length and for a repeated id (DuplicateIDError)
EngineRejects(ids, documents, embeddings, metadatas) ==
    \/ Len(documents) # Len(ids)
    \/ Len(embeddings) # Len(ids)
    \/ Len(metadatas) # Len(ids)
    \/ HasDuplicates(ids)

\* upsert_batch(ids, documents, embeddings, metadatas) when collection.upsert
\* accepts the record set: the store afterwards
upsert_batch(st, ids, documents, embeddings, metadatas) ==
    IF Len(ids) = 0 THEN st
    ELSE UpsertFrom(st, ids, documents, embeddings, metadatas, 1)

\* collection.get(where={"source": source}, include=[])["ids"]
IdsOfSource(st, source) == {x \in DOMAIN st : st[x].metadata.source = source}

\* the variant that deletes only one of the ids it found
delete_by_source_one(st, source) ==
    IF IdsOfSource(st, source) = {} THEN st
    ELSE [x \in DOMAIN st \ {CHOOSE y \in IdsOfSource(st, source) : TRUE} |-> st[x]]

\* delete_by_source(source) on success: the store afterwards
delete_by_source(st, source) ==
    [x \in DOMAIN st \ IdsOfSource(st, source) |-> st[x]]

\* the sources that have at least one stored chunk
IndexedSources(st) == {st[x].metadata.source : x \in DOMAIN st}

\* get_indexed_file_state(): one (mtime, size) per source, taken from the
\* metadata the scan of the collection meets last for that source
IndexedFileStates(st) ==
    {f \in [IndexedSources(st) -> [mtime : MTimes, size : Sizes]] :
        \A s \in IndexedSources(st) :
            \E x \in IdsOfSource(st, s) :
                /\ f[s].mtime = st[x].metadata.file_mtime
                /\ f[s].size = st[x].metadata.file_size}

(***************************************************************************)
(* SyncService: scan and diff                                              *)
(***************************************************************************)

\* _get_local_file_state(path) over a tree that does not change meanwhile;
\* os.stat raises OSError for the skipped files
get_local_file_state(target, skipped) ==
    [p \in {q \in Paths : fs[q].exists /\ InTarget(q, target) /\ q \notin skipped}
        |-> [mtime |-> fs[p].mtime, size |-> fs[p].size]]

\* the variant that compares with "and" instead of "or"
DiffUpdatedBoth(local_state, db_state) ==
    {f \in DOMAIN local_state \cap DOMAIN db_state :
        /\ local_state[f].mtime # db_state[f].mtime
        /\ local_state[f].size # db_state[f].size}

\* added = list(local_files - db_files)
DiffAdded(local_state, db_state) == DOMAIN local_state \ DOMAIN db_state

\* deleted = list(db_files - local_files)
DiffDeleted(local_state, db_state) == DOMAIN db_state \ DOMAIN local_state

\* updated: the potential updates whose mtime or size differs
DiffUpdated(local_state, db_state) ==
    {f \in DOMAIN local_state \cap DOMAIN db_state :
        \/ local_state[f].mtime # db_state[f].mtime
        \/ local_state[f].size # db_state[f].size}

\* the lists a set can be turned into (iteration order of a Python set)
Orderings(S) ==
    {s \in [1..Cardinality(S) -> S] : \A i, j \in 1..Cardinality(S) : i # j => s[i] # s[j]}

\* _calculate_diff(local_state, db_state): the dictionaries it can return
calculate_diff(local_state, db_state) ==
    [added : Orderings(DiffAdded(local_state, db_state)),
     updated : Orderings(DiffUpdated(local_state, db_state)),
     deleted : Orderings(DiffDeleted(local_state, db_state))]

Range(s) == {s[k] : k \in DOMAIN s}

(***************************************************************************)
(* SyncService.run, one step at a time                                     *)
(***************************************************************************)
EmptyStore == [x \in {} |-> {}]

NoSummary ==
    [files_added |-> 0, files_updated |-> 0, files_deleted |-> 0,
     chunks_added |-> 0, chunks_deleted |-> 0]

NoPrev == [kind |-> "none", target |-> ".", clean |-> FALSE]

NoInfo == [file_mtime |-> 0, file_size |-> 0]

IdleRun ==
    [pc |-> "idle", target |-> ".", session_id |-> "system", now |-> 0,
     to_scan |-> {}, local_state |-> EmptyStore,
     files_to_add |-> <<>>, files_to_update |-> <<>>, files_to_delete |-> <<>>,
     i |-> 0,
     \* step 1: the first call of the current loop iteration has returned
     step |-> 0, ids_to_delete |-> {}, file_info |-> NoInfo,
     deleted_chunks_count |-> 0, updated_chunks_count |-> 0,
     all_chunks_to_upsert |-> <<>>, embeddings |-> <<>>,
     summary |-> NoSummary,
     \* bookkeeping of the run, not read by the code
     store0 |-> EmptyStore, faults |-> {}, failed_files |-> {},
     deleted_ids |-> {}, loaded |-> EmptyStore, prev |-> NoPrev]

Running == {"scan", "state", "delete", "update", "process", "embed", "upsert"}
Ended == {"idle", "done", "raised", "killed"}
\* the positions of a run past _calculate_diff: its three lists are computed
Diffed == {"delete", "update", "process", "embed", "upsert", "done"}

NoResult ==
    [entry |-> "none", session_id |-> "system", failed |-> FALSE, raised |-> FALSE,
     error |-> FALSE, docs |-> {}]

NoRunActive == \A r \in DOMAIN run : run[r].pc \in Ended

\* files_to_process = files_to_add + files_to_update
files_to_process(rr) == rr.files_to_add \o rr.files_to_update

\* the summary dictionary built at the end of run
Summary(rr, added_chunks_count) ==
    [files_added |-> Len(rr.files_to_add),
     files_updated |-> Len(rr.files_to_update),
     files_deleted |-> Len(rr.files_to_delete),
     chunks_added |-> added_chunks_count,
     chunks_deleted |-> rr.deleted_chunks_count + rr.updated_chunks_count]

\* what the run met: the failures of its collaborators and a change of the
\* tree while it ran ("tree"); a batch the engine refused for a repeated id
\* ("duplicate") is the run's own doing, not such an event
Failures(rr) == rr.faults \ {"duplicate"}

\* run returns its summary
Returned(rr, added_chunks_count) ==
    [rr EXCEPT !.pc = "done", !.i = 0, !.step = 0,
               !.summary = Summary(rr, added_chunks_count)]

\* the control flow of run between two calls of a collaborator: a loop whose
\* list is exhausted ends, _delete_files(files_to_delete) is followed by
\* _delete_files(files_to_update) and by _process_and_upsert_files, which
\* returns 0 when there is no file to process or no chunk was collected
RECURSIVE Settle(_)
Settle(rr) ==
    IF rr.pc = "delete" /\ rr.step = 0 /\ rr.i = Len(rr.files_to_delete)
    THEN Settle([rr EXCEPT !.pc = "update", !.i = 0])
    ELSE IF rr.pc = "update" /\ rr.step = 0 /\ rr.i = Len(rr.files_to_update)
    THEN IF Len(files_to_process(rr)) = 0
         THEN Returned(rr, 0)
         ELSE Settle([rr EXCEPT !.pc = "process", !.i = 0])
    ELSE IF rr.pc = "process" /\ rr.step = 0 /\ rr.i = Len(files_to_process(rr))
    THEN IF Len(rr.all_chunks_to_upsert) = 0
         THEN Returned(rr, 0)
         ELSE [rr EXCEPT !.pc = "embed", !.i = 0]
    ELSE rr

\* how the most recent run ended, once the run in record rr has ended
Ending(rr) ==
    IF rr.pc = "done"
    THEN [kind |-> "done", target |-> rr.target, clean |-> Failures(rr) = {}]
    ELSE [kind |-> rr.pc, target |-> rr.target, clean |-> FALSE]

\* the run in slot r goes on from record rr to its next call of a
\* collaborator, or to its end
Proceed(r, rr) ==
    LET next == Settle(rr)
    IN /\ run' = [run EXCEPT ![r] = next]
       /\ prev' = IF next.pc \in {"done", "raised"} THEN Ending(next) ELSE prev

\* a step that calls a collaborator: the call succeeds, or it fails, which is
\* a disturbance
Outcome(ok) ==
    IF ok THEN budget' = budget
    ELSE budget.events > 0 /\ budget' = [budget EXCEPT !.events = @ - 1]

\* run is called in invocation slot r, whether or not a run in another slot
\* has returned; os.walk(target_path) is about to visit the files below the
\* target
StartRun(r, target, session_id) ==
    /\ run[r].pc \notin Running
    /\ budget.runs > 0
    /\ budget' = [budget EXCEPT !.runs = @ - 1]
    /\ clock' = clock + 1
    /\ qres' = NoResult
    /\ prev' = NoPrev
    /\ run' = [run EXCEPT ![r] =
                [IdleRun EXCEPT !.pc = "scan", !.target = target,
                                !.session_id = session_id, !.now = clock + 1,
                                !.to_scan = {q \in Paths : InTarget(q, target)},
                                !.store0 = store, !.prev = prev]]
    /\ UNCHANGED <<fs, store, pin, pout>>

\* _get_local_file_state, one file: os.walk reaches the directory of p, in
\* the order the file system lists the directories; a file that is there is
\* read with os.stat and recorded, and when os.stat raises OSError the file
\* is left out with a warning; after the last file the scan returns
ScanFile(r, p, ok) ==
    /\ run[r].pc = "scan"
    /\ p \in run[r].to_scan
    /\ ok \/ fs[p].exists
    /\ Outcome(ok)
    /\ LET rr == run[r]
           rest == rr.to_scan \ {p}
           seen == IF fs[p].exists /\ ok THEN {p} ELSE {}
       IN run' = [run EXCEPT ![r] =
                [rr EXCEPT !.to_scan = rest,
                           !.pc = IF rest = {} THEN "state" ELSE "scan",
                           !.local_state =
                               [q \in DOMAIN rr.local_state \cup seen |->
                                   IF q = p
                                   THEN [mtime |-> fs[p].mtime, size |-> fs[p].size]
                                   ELSE rr.local_state[q]],
                           !.faults = IF ok THEN @ ELSE @ \cup {"scan"}]]
    /\ qres' = NoResult
    /\ UNCHANGED <<fs, store, clock, prev, pin, pout>>

\* run, step 1 and 2: db_state = get_indexed_file_state(), whose exception
\* leaves run uncaught, and _calculate_diff
ReadIndexedState(r, ok) ==
    /\ run[r].pc = "state"
    /\ Outcome(ok)
    /\ LET rr == run[r]
       IN IF ok
          THEN \E db_state \in IndexedFileStates(store) :
                  \E diff \in calculate_diff(rr.local_state, db_state) :
                     Proceed(r, [rr EXCEPT !.pc = "delete",
                                           !.files_to_add = diff.added,
                                           !.files_to_update = diff.updated,
                                           !.files_to_delete = diff.deleted])
          ELSE Proceed(r, [rr EXCEPT !.pc = "raised", !.faults = @ \cup {"state"}])
    /\ qres' = NoResult
    /\ UNCHANGED <<fs, store, clock, pin, pout>>

\* the list a _delete_files call walks
DeleteList(rr) == IF rr.pc = "delete" THEN rr.files_to_delete ELSE rr.files_to_update

\* _delete_files, one iteration, first call of delete_by_source(path):
\* ids_to_delete = collection.get(where source); with no id found it returns
\* 0; its exception is re-raised, then logged and swallowed by _delete_files
FindChunks(r, ok) ==
    /\ run[r].pc \in {"delete", "update"}
    /\ run[r].step = 0
    /\ Outcome(ok)
    /\ LET rr == run[r]
           path == DeleteList(rr)[rr.i + 1]
       IN IF ~ok
          THEN Proceed(r, [rr EXCEPT !.i = @ + 1, !.faults = @ \cup {"delete"}])
          ELSE IF IdsOfSource(store, path) = {}
               THEN Proceed(r, [rr EXCEPT !.i = @ + 1])
               ELSE Proceed(r, [rr EXCEPT !.step = 1,
                                          !.ids_to_delete = IdsOfSource(store, path)])
    /\ qres' = NoResult
    /\ UNCHANGED <<fs, store, clock, pin, pout>>

\* collection.delete(ids): the store afterwards; an id that is gone is passed
\* over
delete_ids(st, ids) == [x \in DOMAIN st \ ids |-> st[x]]

\* _delete_files, one iteration, second call of delete_by_source(path):
\* collection.delete(ids=ids_to_delete), return len(ids_to_delete); its
\* exception is re-raised, then logged and swallowed by _delete_files
DeleteFile(r, ok) ==
    /\ run[r].pc \in {"delete", "update"}
    /\ run[r].step = 1
    /\ Outcome(ok)
    /\ LET rr == run[r]
           count == Cardinality(rr.ids_to_delete)
       IN IF ok
          THEN /\ store' = delete_ids(store, rr.ids_to_delete)
               /\ Proceed(r,
                    [rr EXCEPT !.i = @ + 1, !.step = 0, !.ids_to_delete = {},
                               !.deleted_chunks_count =
                                   IF rr.pc = "delete" THEN @ + count ELSE @,
                               !.updated_chunks_count =
                                   IF rr.pc = "update" THEN @ + count ELSE @,
                               !.deleted_ids = @ \cup (rr.ids_to_delete \cap DOMAIN store)])
          ELSE /\ store' = store
               /\ Proceed(r,
                    [rr EXCEPT !.i = @ + 1, !.step = 0, !.ids_to_delete = {},
                               !.faults = @ \cup {"delete"}])
    /\ qres' = NoResult
    /\ UNCHANGED <<fs, clock, pin, pout>>

\* the file is skipped: logger.error, continue
SkipFile(rr, path) ==
    [rr EXCEPT !.i = @ + 1, !.step = 0, !.file_info = NoInfo,
               !.faults = @ \cup {"load"},
               !.failed_files = @ \cup {path}]

\* _process_and_upsert_files, one iteration, first read of process_document:
\* file_info = get_file_info(full_file_path); an exception skips the file
StatFile(r, ok) ==
    /\ run[r].pc = "process"
    /\ run[r].step = 0
    /\ Outcome(ok)
    /\ LET rr == run[r]
           path == files_to_process(rr)[rr.i + 1]
       IN IF ok /\ fs[path].exists
          THEN Proceed(r, [rr EXCEPT !.step = 1, !.file_info = get_file_info(path)])
          ELSE Proceed(r, SkipFile(rr, path))
    /\ qres' = NoResult
    /\ UNCHANGED <<fs, store, clock, pin, pout>>

\* the file has gone through process_document: its chunks are collected
Collected(rr, path, session_id) ==
    [rr EXCEPT !.i = @ + 1, !.step = 0, !.file_info = NoInfo,
               !.loaded = [q \in DOMAIN @ \cup {path} |->
                             IF q = path
                             THEN [info |-> rr.file_info, loaded |-> get_file_info(path)]
                             ELSE @[q]],
               !.all_chunks_to_upsert = @ \o
                   process_document(path, rr.file_info, get_file_info(path),
                                    session_id, <<rr.now, rr.i + 1>>)]

\* the variant of the per-file loop that gives up at the first failure
ProcessFileAbort(r, ok) ==
    /\ run[r].pc = "process"
    /\ run[r].step = 1
    /\ Outcome(ok)
    /\ LET rr == run[r]
           path == files_to_process(rr)[rr.i + 1]
       IN IF ok /\ fs[path].exists
          THEN Proceed(r, Collected(rr, path, rr.session_id))
          ELSE Proceed(r, [SkipFile(rr, path) EXCEPT !.i = Len(files_to_process(rr))])
    /\ qres' = NoResult
    /\ UNCHANGED <<fs, store, clock, pin, pout>>

\* _process_and_upsert_files, one iteration, the rest of process_document:
\* the loader reads the file as it is now, the chunks get their ids and
\* metadata from file_info; an exception skips the file
ProcessFile(r, ok) ==
    /\ run[r].pc = "process"
    /\ run[r].step = 1
    /\ Outcome(ok)
    /\ LET rr == run[r]
           path == files_to_process(rr)[rr.i + 1]
       IN IF ok /\ fs[path].exists
          THEN Proceed(r, Collected(rr, path, rr.session_id))
          ELSE Proceed(r, SkipFile(rr, path))
    /\ qres' = NoResult
    /\ UNCHANGED <<fs, store, clock, pin, pout>>

\* the variant that logs an embedding failure and goes on to the upsert
EmbedChunksSwallow(r, ok) ==
    /\ run[r].pc = "embed"
    /\ Outcome(ok)
    /\ LET rr == run[r]
           contents == [k \in 1..Len(rr.all_chunks_to_upsert) |->
                            rr.all_chunks_to_upsert[k].content]
           emb == embed_texts(contents, IF ok THEN 0 ELSE 1)
       IN Proceed(r, [rr EXCEPT !.pc = "upsert",
                                !.embeddings =
                                    IF ~emb.raised THEN emb.ret
                                    ELSE [k \in 1..Len(contents) |-> <<"none">>],
                                !.faults = IF ~emb.raised THEN @ ELSE @ \cup {"embed"}])
    /\ qres' = NoResult
    /\ UNCHANGED <<fs, store, clock, pin, pout>>

\* contents = [chunk['content'] ...]; embeddings = embed_texts(contents),
\* whose exception leaves run uncaught
EmbedChunks(r, ok) ==
    /\ run[r].pc = "embed"
    /\ Outcome(ok)
    /\ LET rr == run[r]
           contents == [k \in 1..Len(rr.all_chunks_to_upsert) |->
                            rr.all_chunks_to_upsert[k].content]
           emb == embed_texts(contents, IF ok THEN 0 ELSE 1)
       IN IF ~emb.raised
          THEN Proceed(r, [rr EXCEPT !.pc = "upsert", !.embeddings = emb.ret])
          ELSE Proceed(r, [rr EXCEPT !.pc = "raised", !.faults = @ \cup {"embed"}])
    /\ qres' = NoResult
    /\ UNCHANGED <<fs, store, clock, pin, pout>>

\* upsert_batch(ids, contents, embeddings, metadatas); its exception (a
\* store failure, or the engine refusing the record set) is logged and
\* turned into a count of 0, and run returns its summary
UpsertChunks(r, ok) ==
    /\ run[r].pc = "upsert"
    /\ Outcome(ok)
    /\ LET rr == run[r]
           n == Len(rr.all_chunks_to_upsert)
           ids == [k \in 1..n |-> rr.all_chunks_to_upsert[k].id]
           contents == [k \in 1..n |-> rr.all_chunks_to_upsert[k].content]
           metadatas == [k \in 1..n |-> rr.all_chunks_to_upsert[k].metadata]
       IN IF ok /\ ~EngineRejects(ids, contents, rr.embeddings, metadatas)
          THEN /\ store' = upsert_batch(store, ids, contents, rr.embeddings, metadatas)
               /\ Proceed(r, Returned(rr, Len(ids)))
          ELSE /\ store' = store
               /\ Proceed(r, Returned([rr EXCEPT !.faults =
                                @ \cup {IF ok THEN "duplicate" ELSE "upsert"}], 0))
    /\ qres' = NoResult
    /\ UNCHANGED <<fs, clock, pin, pout>>

\* the process is terminated between two steps of a run
Kill(r) ==
    /\ run[r].pc \in Running
    /\ Outcome(FALSE)
    /\ run' = [run EXCEPT ![r] = [IdleRun EXCEPT !.pc = "killed",
                                                 !.target = run[r].target]]
    /\ prev' = [kind |-> "killed", target |-> run[r].target, clean |-> FALSE]
    /\ qres' = NoResult
    /\ UNCHANGED <<fs, store, clock, pin, pout>>

(***************************************************************************)
(* The environment: files are written and removed at any time, also while  *)
(* a run is in progress; nothing in run locks the tree                     *)
(***************************************************************************)

\* the run records after a change of the tree: a run in progress has met the
\* change, the record of a run that has ended is dropped
Disturbed ==
    [r \in DOMAIN run |->
        IF run[r].pc \in Running
        THEN [run[r] EXCEPT !.faults = @ \cup {"tree"}]
        ELSE IF NoRunActive THEN IdleRun ELSE run[r]]

\* a file is created or rewritten (upload_document, or any other writer)
WriteFile(p, m, s) ==
    /\ Outcome(FALSE)
    /\ fs[p] # [exists |-> TRUE, mtime |-> m, size |-> s]
    /\ fs' = [fs EXCEPT ![p] = [exists |-> TRUE, mtime |-> m, size |-> s]]
    /\ run' = Disturbed
    /\ prev' = NoPrev
    /\ qres' = NoResult
    /\ UNCHANGED <<store, clock, pin, pout>>

\* a file is removed (delete_document, or any other writer)
RemoveFile(p) ==
    /\ Outcome(FALSE)
    /\ fs[p].exists
    /\ fs' = [fs EXCEPT ![p] = NoFile]
    /\ run' = Disturbed
    /\ prev' = NoPrev
    /\ qres' = NoResult
    /\ UNCHANGED <<store, clock, pin, pout>>

(***************************************************************************)
(* Retrieval                                                               *)
(***************************************************************************)
RAG_TOP_K == 3


\* the stored records a where filter lets through; no filter lets all through
Matching(st, filtered, session_id) ==
    {x \in DOMAIN st :
        \/ ~filtered
        \/ st[x].metadata.session_id = "system"
        \/ st[x].metadata.session_id = session_id}

\* collection.query(n_results=top_k, where=...): the top_k nearest of the
\* matching records; which ones are nearest is up to the vectors
Nearest(candidates, top_k) ==
    {S \in SUBSET candidates : Cardinality(S) = Min(top_k, Cardinality(candidates))}

\* the documents handed back for a set of hits
Docs(st, hits) == {[content |-> st[x].document, metadata |-> st[x].metadata] : x \in hits}

\* the top_k arguments: none (<<>>) or a number (<<k>>)
MaxTopK == 5
TopKs == {<<>>, <<1>>, <<MaxTopK>>}

\* if top_k is None: top_k = config.RAG_TOP_K
EffectiveTopK(top_k) == IF top_k = <<>> THEN RAG_TOP_K ELSE top_k[1]

\* the retriever of _create_retriever_with_filter(session_id, top_k) is
\* invoked; a failure of embed_query leaves it uncaught
AgentRetrieve(session_id, top_k, ok) ==
    /\ IF ok
       THEN \E hits \in Nearest(Matching(store, TRUE, session_id), EffectiveTopK(top_k)) :
                qres' = [entry |-> "agent", session_id |-> session_id,
                         failed |-> FALSE, raised |-> FALSE, error |-> FALSE,
                         docs |-> Docs(store, hits)]
       ELSE qres' = [entry |-> "agent", session_id |-> session_id,
                     failed |-> TRUE, raised |-> TRUE, error |-> FALSE, docs |-> {}]
    /\ UNCHANGED <<fs, store, clock, run, prev, budget, pin, pout>>

\* RagPipeline.query(question), asked on behalf of session_id: embed_text,
\* then query_similar(query_vector, top_k=RAG_TOP_K) with no where_filter;
\* any exception is caught and becomes a returned dictionary with an "error"
\* key and no chunks
RagQuery(session_id, ok) ==
    /\ IF ok
       THEN \E hits \in Nearest(Matching(store, FALSE, session_id), RAG_TOP_K) :
                qres' = [entry |-> "pipeline", session_id |-> session_id,
                         failed |-> FALSE, raised |-> FALSE, error |-> FALSE,
                         docs |-> Docs(store, hits)]
       ELSE qres' = [entry |-> "pipeline", session_id |-> session_id,
                     failed |-> TRUE, raised |-> FALSE, error |-> TRUE, docs |-> {}]
    /\ UNCHANGED <<fs, store, clock, run, prev, budget, pin, pout>>

(***************************************************************************)
(* The system                                                              *)
(***************************************************************************)
NoPure == [kind |-> "none"]

\* the states of a file
FileStates == {NoFile} \cup [exists : {TRUE}, mtime : MTimes, size : Sizes]

\* the engine is empty and no run was made
InitEngine ==
    /\ store = EmptyStore
    /\ clock = 0
    /\ run = [r \in Runs |-> IdleRun]
    /\ prev = NoPrev
    /\ qres = NoResult

InitSystem ==
    /\ fs = [p \in Paths |-> NoFile]
    /\ InitEngine
    /\ budget = [runs |-> 0, events |-> 0]

\* the service starts over some tree
Init ==
    /\ fs \in [Paths -> FileStates]
    /\ InitEngine
    /\ budget = [runs |-> MaxRuns, events |-> MaxEvents]
    /\ pin = NoPure
    /\ pout = NoPure

\* the steps of a sync run, each with the outcome ok of its collaborator
RunStep(r, ok) ==
    \/ \E p \in Paths : ScanFile(r, p, ok)
    \/ ReadIndexedState(r, ok)
    \/ FindChunks(r, ok)
    \/ DeleteFile(r, ok)
    \/ StatFile(r, ok)
    \/ ProcessFile(r, ok)
    \/ EmbedChunks(r, ok)
    \/ UpsertChunks(r, ok)

\* the tree changes, whether or not a run is in progress
Environment ==
    \/ \E p \in Paths, m \in MTimes, s \in Sizes : WriteFile(p, m, s)
    \/ \E p \in Paths : RemoveFile(p)

\* sync runs called one after the other, with every failure and termination,
\* over a tree that changes at any time
Next ==
    \/ \E r \in Runs, target \in Targets, session_id \in SyncSessions :
            StartRun(r, target, session_id)
    \/ \E r \in Runs, ok \in BOOLEAN : RunStep(r, ok)
    \/ \E r \in Runs : Kill(r)
    \/ Environment

Spec == Init /\ [][Next]_vars

\* the retrieval calls, which may fall between any two steps of the system
NextRetrieval ==
    \/ Next
    \/ \E session_id \in QuerySessions, top_k \in TopKs, ok \in BOOLEAN :
            AgentRetrieve(session_id, top_k, ok)
    \/ \E session_id \in QuerySessions, ok \in BOOLEAN : RagQuery(session_id, ok)

\* the service starts over some tree and answers queries, with MaxRuns calls
\* of run and no disturbance, or one call and MaxRetrievalEvents disturbances
MaxRetrievalEvents == 1

InitRetrieval ==
    /\ fs \in [Paths -> FileStates]
    /\ InitEngine
    /\ budget \in {[runs |-> MaxRuns, events |-> 0],
                   [runs |-> 1, events |-> MaxRetrievalEvents]}
    /\ pin = NoPure
    /\ pout = NoPure

SpecRetrieval == InitRetrieval /\ [][NextRetrieval]_vars

(***************************************************************************)
(* Pure functions, applied to inputs drawn from bounded sets               *)
(***************************************************************************)
DiffPaths == {"a.txt", "b.txt", "c.txt"}
DiffSizes == {1, MaxSize}
StateMaps == UNION {[D -> [mtime : MTimes, size : DiffSizes]] : D \in SUBSET DiffPaths}

InitDiff ==
    /\ InitSystem
    /\ pin \in [kind : {"diff"}, local_state : StateMaps, db_state : StateMaps]
    /\ pout = NoPure

\* _calculate_diff(local_state, db_state) is called
ApplyDiff ==
    /\ pin.kind = "diff"
    /\ pout = NoPure
    /\ pout' \in [kind : {"diff"}, diff : calculate_diff(pin.local_state, pin.db_state)]
    /\ UNCHANGED <<fs, store, clock, run, prev, budget, qres, pin>>

SpecDiff == InitDiff /\ [][ApplyDiff]_vars

MaxIdSize == 11
MaxIdx == 10
IdSizes == {0, 1, MaxSize, MaxIdSize}
IdIdxs == {0, 1, MaxIdx}

InitId ==
    /\ InitSystem
    /\ pin \in [kind : {"ids"},
                x : [relpath : {"docs/a.txt"}, file_mtime : MTimes, file_size : IdSizes,
                     idx : IdIdxs, content : {"x"}, session_id : {"system"}, now : {1}],
                y : [relpath : Paths, file_mtime : MTimes, file_size : IdSizes,
                     idx : IdIdxs, content : {"x", "y"}, session_id : {"system", "A"},
                     now : {1, 2}]]
    /\ pout = NoPure

\* the loop body of process_document, on one chunk
ChunkOf(c) ==
    ProcessedChunk(c.relpath, [file_mtime |-> c.file_mtime, file_size |-> c.file_size],
                   c.idx, c.content, c.session_id, c.now)

\* two chunks are processed, in one run or in two
ApplyId ==
    /\ pin.kind = "ids"
    /\ pout = NoPure
    /\ pout' = [kind |-> "ids", x |-> ChunkOf(pin.x), y |-> ChunkOf(pin.y)]
    /\ UNCHANGED <<fs, store, clock, run, prev, budget, qres, pin>>

SpecId == InitId /\ [][ApplyId]_vars

(***************************************************************************)
(* The repository operations and IngestionService.ingest_chunks, called    *)
(* on their own with inputs drawn from bounded sets                        *)
(***************************************************************************)
MaxBatch == 2
MaxChunks == 3

RepoIds == {"", "i1", "i2"}
RepoDocs == {"d1", "d2"}

\* a stored record, as upsert_batch writes it
RepoRecord(document, source) ==
    [document |-> document, embedding |-> Embed(document),
     metadata |-> [source |-> source]]

\* the collections over the ids "i1" and "i2"
RepoStores ==
    UNION {[D -> {RepoRecord(d, p) : d \in RepoDocs, p \in Paths}] :
              D \in SUBSET {"i1", "i2"}}

\* the sequences over S of length at most n
SeqUpTo(S, n) == UNION {[1..k -> S] : k \in 0..n}

\* a list, or the list without its last element
Cut(list, cut) == IF cut /\ Len(list) > 0 THEN SubSeq(list, 1, Len(list) - 1) ELSE list

\* the four argument lists of an upsert_batch call, built from the entries
\* of a batch, one of the lists possibly one element short
BatchIds(in) == Cut([k \in 1..Len(in.entries) |-> in.entries[k].id], in.cut = "ids")
BatchDocuments(in) ==
    Cut([k \in 1..Len(in.entries) |-> in.entries[k].document], in.cut = "documents")
BatchEmbeddings(in) ==
    Cut([k \in 1..Len(in.entries) |-> Embed(in.entries[k].document)],
        in.cut = "embeddings")
BatchMetadatas(in) ==
    Cut([k \in 1..Len(in.entries) |-> [source |-> in.entries[k].source]],
        in.cut = "metadatas")

\* upsert_batch(ids, documents, embeddings, metadatas), as called: an empty
\* ids list is skipped with a warning; otherwise collection.upsert is called
\* and its exception re-raised. Whether the engine refuses an empty string
\* as an id depends on its version.
UpsertOutcomes(st, ids, documents, embeddings, metadatas) ==
    IF Len(ids) = 0
    THEN {[raised |-> FALSE, st |-> st]}
    ELSE IF EngineRejects(ids, documents, embeddings, metadatas)
    THEN {[raised |-> TRUE, st |-> st]}
    ELSE {[raised |-> FALSE,
           st |-> upsert_batch(st, ids, documents, embeddings, metadatas)]}
         \cup (IF "" \in Range(ids) THEN {[raised |-> TRUE, st |-> st]} ELSE {})

\* delete_by_source(source), as called: the store afterwards and the count
DeleteBySourceOutcome(st, source) ==
    [raised |-> FALSE, st |-> delete_by_source(st, source),
     ret |-> Cardinality(IdsOfSource(st, source))]

\* delete_by_ids(ids), as called: collection.delete(ids=ids) removes the ids
\* that are stored and ignores the others, and len(ids) is returned; the
\* engine may refuse a list that repeats an id
DeleteByIdsOutcomes(st, ids) ==
    IF Len(ids) = 0
    THEN {[raised |-> FALSE, st |-> st, ret |-> 0]}
    ELSE {[raised |-> FALSE, st |-> [x \in DOMAIN st \ Range(ids) |-> st[x]],
           ret |-> Len(ids)]}
         \cup (IF HasDuplicates(ids) THEN {[raised |-> TRUE, st |-> st, ret |-> 0]}
               ELSE {})

\* query_similar(query_vector, top_k, where_filter=None), as called
QuerySimilarOutcomes(st, query_vector, top_k) ==
    IF Len(query_vector) = 0 \/ top_k <= 0
    THEN {[raised |-> TRUE, st |-> st, docs |-> {}]}
    ELSE {[raised |-> FALSE, st |-> st, docs |-> Docs(st, hits)] :
              hits \in Nearest(DOMAIN st, top_k)}

\* ingest_chunks(chunks): repo.upsert_batch(batch) passes one argument to a
\* method that requires four, so the first batch raises TypeError before
\* upsert_batch runs; calls lists the batches that reached the repository
IngestChunksOutcome(st, chunks, batch_size) ==
    IF Len(chunks) = 0
    THEN [raised |-> FALSE, st |-> st, ret |-> 0, calls |-> <<>>]
    ELSE [raised |-> TRUE, st |-> st, ret |-> 0, calls |-> <<>>]

\* A distance is a double, given as [unit, n]: the double nearest n / 10 in
\* unit "tenth", and n * 2^-56 in unit "tiny".  A similarity is a double,
\* held as [cls, u]:
\*   "below_one"   1 - u * 2^-53, the u-th double below 1.0 (u = 0: 1.0)
\*   "exp"         math.exp(-u / 10), for the distances 0.1 .. 742.1, whose
\*                 exponentials are 7421 different doubles between
\*                 10 * 2^-1074 and 1, smaller for a greater distance
\*   "subnormal"   u * 2^-1074, the u-th double above 0.0 (u = 0: 0.0)
\*   "above_one"   a double greater than 1.0, greater for a greater u
MaxDist == 3
MaxTiny == 3

\* the first distance, in tenths, whose exponential has less than ten
\* subnormal steps, so that distances a tenth apart share a double
SubnormalFrom == 7422

\* e^(-n / 10) / 2^-1074 in units of 1 / ExpScale, truncated, for
\* n = SubnormalFrom, SubnormalFrom + 1, ...; beyond its end the quotient is
\* below one half
ExpScale == 100000
ExpInSubnormalSteps ==
    <<939400, 850004, 769116, 695925, 629699, 569775, 515554,
      466492, 422099, 381931, 345586, 312699, 282942, 256016,
      231653, 209608, 189661, 171613, 155281, 140504, 127134,
      115035, 104088, 94183, 85220, 77110, 69772, 63132,
      57125, 51688, 46770, 42319, 38292, 34648>>

\* IEEE 754 round to nearest, ties to even, of num / den to an integer
RoundNearestEven(num, den) ==
    LET q == num \div den
        r == num % den
    IN IF 2 * r < den THEN q
       ELSE IF 2 * r > den THEN q + 1
       ELSE IF q % 2 = 0 THEN q ELSE q + 1

Tenth(n) == [unit |-> "tenth", n |-> n]
Tiny(n) == [unit |-> "tiny", n |-> n]

\* the distances of the hits: 0.0, distances next to it, usual distances,
\* and distances around 745, where math.exp(-distance) runs out of doubles
SimDistances ==
    {Tiny(n) : n \in 0..MaxTiny}
    \cup {Tenth(n) : n \in 1..MaxDist}
    \cup {Tenth(n) : n \in (SubnormalFrom - 2)..(SubnormalFrom + Len(ExpInSubnormalSteps) + 1)}

\* d1 < d2 on doubles (a tiny distance is below every positive tenth)
DistLess(d1, d2) ==
    IF d1.unit = d2.unit THEN d1.n < d2.n
    ELSE IF d1.unit = "tiny" THEN d2.n > 0
    ELSE d1.n = 0 /\ d2.n > 0

SimOne == [cls |-> "below_one", u |-> 0]
SimZero == [cls |-> "subnormal", u |-> 0]

\* the variant that forgets the minus sign: math.exp(distance), which is 1.0
\* for the tiny distances and above 1.0 for the others
SimilarityNoMinus(d) ==
    IF d.n = 0 \/ d.unit = "tiny" THEN SimOne
    ELSE [cls |-> "above_one", u |-> d.n]

\* similarity = math.exp(-distance), rounded to a double.  Next to 0.0,
\* e^(-d) = 1 - d + d^2 / 2 - ... lies just above 1 - d, which is n / 8
\* doubles below 1.0, so the result is the nearest double and a halfway case
\* goes towards 1.0.  Around 745 the result is a whole number of subnormal
\* steps, and 0.0 when e^(-d) is below half a step
Similarity(d) ==
    IF d.n = 0 THEN SimOne
    ELSE IF d.unit = "tiny" THEN [cls |-> "below_one", u |-> (d.n + 3) \div 8]
    ELSE IF d.n < SubnormalFrom THEN [cls |-> "exp", u |-> d.n]
    ELSE IF d.n - SubnormalFrom + 1 <= Len(ExpInSubnormalSteps)
    THEN [cls |-> "subnormal",
          u |-> RoundNearestEven(ExpInSubnormalSteps[d.n - SubnormalFrom + 1], ExpScale)]
    ELSE SimZero

\* comparison of two similarities as numbers
SimGreater(a, b) ==
    LET Rank(cls) == CASE cls = "above_one" -> 4
                       [] cls = "below_one" -> 3
                       [] cls = "exp" -> 2
                       [] cls = "subnormal" -> 1
    IN IF a.cls # b.cls THEN Rank(a.cls) > Rank(b.cls)
       ELSE IF a.cls \in {"above_one", "subnormal"} THEN a.u > b.u
       ELSE a.u < b.u
SimEqual(a, b) == a = b

\* query_similar's loop over the hits, on the distances of two of them
SimilarityOutcome(d1, d2) == [s1 |-> Similarity(d1), s2 |-> Similarity(d2)]

RepoInputs ==
    [kind : {"upsert_batch"}, st : {EmptyStore, [x \in {"i1"} |-> RepoRecord("d1", "docs/a.txt")]},
     entries : SeqUpTo([id : RepoIds, document : RepoDocs, source : Paths], MaxBatch),
     cut : {"none", "ids", "documents", "embeddings", "metadatas"}]
    \cup [kind : {"delete_by_source"}, st : RepoStores, source : Paths]
    \cup [kind : {"delete_by_ids"}, st : RepoStores,
          ids : SeqUpTo({"i1", "i2", "i3"}, MaxBatch)]
    \cup [kind : {"query_similar"}, st : RepoStores,
          query_vector : {<<>>, <<1>>}, top_k : {-1, 0, 1, RAG_TOP_K}]
    \cup [kind : {"ingest_chunks"}, st : {EmptyStore},
          chunks : SeqUpTo([id : {"i1", "i2"}, document : RepoDocs,
                            source : {"docs/a.txt"}], MaxChunks),
          batch_size : 1..MaxBatch]
    \cup [kind : {"similarity"}, d1 : SimDistances, d2 : SimDistances]

InitRepo ==
    /\ InitSystem
    /\ pin \in RepoInputs
    /\ pout = NoPure

ApplyUpsertBatch ==
    /\ pin.kind = "upsert_batch"
    /\ pout = NoPure
    /\ \E o \in UpsertOutcomes(pin.st, BatchIds(pin), BatchDocuments(pin),
                                BatchEmbeddings(pin), BatchMetadatas(pin)) :
          pout' = [kind |-> "upsert_batch", raised |-> o.raised, st |-> o.st]
    /\ UNCHANGED <<fs, store, clock, run, prev, budget, qres, pin>>

ApplyDeleteBySource ==
    /\ pin.kind = "delete_by_source"
    /\ pout = NoPure
    /\ LET o == DeleteBySourceOutcome(pin.st, pin.source)
       IN pout' = [kind |-> "delete_by_source", raised |-> o.raised, st |-> o.st,
                   ret |-> o.ret]
    /\ UNCHANGED <<fs, store, clock, run, prev, budget, qres, pin>>

ApplyDeleteByIds ==
    /\ pin.kind = "delete_by_ids"
    /\ pout = NoPure
    /\ \E o \in DeleteByIdsOutcomes(pin.st, pin.ids) :
          pout' = [kind |-> "delete_by_ids", raised |-> o.raised, st |-> o.st,
                   ret |-> o.ret]
    /\ UNCHANGED <<fs, store, clock, run, prev, budget, qres, pin>>

ApplyQuerySimilar ==
    /\ pin.kind = "query_similar"
    /\ pout = NoPure
    /\ \E o \in QuerySimilarOutcomes(pin.st, pin.query_vector, pin.top_k) :
          pout' = [kind |-> "query_similar", raised |-> o.raised, st |-> o.st,
                   docs |-> o.docs]
    /\ UNCHANGED <<fs, store, clock, run, prev, budget, qres, pin>>

ApplyIngestChunks ==
    /\ pin.kind = "ingest_chunks"
    /\ pout = NoPure
    /\ LET o == IngestChunksOutcome(pin.st, pin.chunks, pin.batch_size)
       IN pout' = [kind |-> "ingest_chunks", raised |-> o.raised, st |-> o.st,
                   ret |-> o.ret, calls |-> o.calls]
    /\ UNCHANGED <<fs, store, clock, run, prev, budget, qres, pin>>

ApplySimilarity ==
    /\ pin.kind = "similarity"
    /\ pout = NoPure
    /\ LET o == SimilarityOutcome(pin.d1, pin.d2)
       IN pout' = [kind |-> "similarity", s1 |-> o.s1, s2 |-> o.s2]
    /\ UNCHANGED <<fs, store, clock, run, prev, budget, qres, pin>>

NextRepo ==
    \/ ApplyUpsertBatch
    \/ ApplyDeleteBySource
    \/ ApplyDeleteByIds
    \/ ApplyQuerySimilar
    \/ ApplyIngestChunks
    \/ ApplySimilarity

SpecRepo == InitRepo /\ [][NextRepo]_vars

(***************************************************************************)
(* EmbeddingService.embed_texts and the embed-and-upsert tail of           *)
(* SyncService._process_and_upsert_files, called on lists of up to         *)
(* MaxTexts texts of which up to MaxBlanks are blank                       *)
(***************************************************************************)
MaxTexts == 21
MaxBlanks == 2

\* the sets of at most m positions of blank texts
RECURSIVE BlankSets(_)
BlankSets(m) ==
    IF m = 0
    THEN {{}}
    ELSE LET S == BlankSets(m - 1)
         IN S \cup {s \cup {a} : s \in S, a \in 1..MaxTexts}

\* the k-th text of an input list: blank (empty, or two white-space
\* characters) at the positions in blanks; every third other text has an
\* inner run of two white-space characters
EmbedText(k, blanks) ==
    LET w1 == WhitespaceChars[k]
        w2 == WhitespaceChars[k + Len(WhitespaceChars) - MaxTexts]
    IN IF k \in blanks
       THEN IF k % 4 = 1 THEN <<>> ELSE <<w1, w2>>
       ELSE IF k % 3 = 0 THEN <<116, w1, w2, Digit(k)>> ELSE <<116, Digit(k)>>

EmbedTexts(in) == [k \in 1..in.n |-> EmbedText(k, in.blanks)]

\* the number of provider calls embed_texts makes for n texts at most
MaxCalls(n) == (n + EMBEDDING_BATCH_SIZE - 1) \div EMBEDDING_BATCH_SIZE

EmbedInputs ==
    {in \in [kind : {"embed_texts", "embed_and_upsert"},
              n : 0..MaxTexts,
              blanks : BlankSets(MaxBlanks),
              fail_at : 0..MaxCalls(MaxTexts)] :
        in.blanks \subseteq 1..in.n}

InitEmbed ==
    /\ InitSystem
    /\ pin \in EmbedInputs
    /\ pout = NoPure

\* all_chunks_to_upsert of a run that collected the chunks with these texts
CollectedChunks(in) ==
    [k \in 1..in.n |->
        ProcessedChunk("docs/a.txt", [file_mtime |-> 1, file_size |-> in.n], k - 1,
                       EmbedText(k, in.blanks), "system", 1)]

\* _process_and_upsert_files from "if not all_chunks_to_upsert" on: the
\* upsert_batch calls issued and the count returned; an exception of
\* embed_texts is not caught, one of upsert_batch gives 0
EmbedAndUpsert(all_chunks_to_upsert, fail_at) ==
    LET n == Len(all_chunks_to_upsert)
        contents == [k \in 1..n |-> all_chunks_to_upsert[k].content]
        emb == embed_texts(contents, fail_at)
        ids == [k \in 1..n |-> all_chunks_to_upsert[k].id]
        metadatas == [k \in 1..n |-> all_chunks_to_upsert[k].metadata]
    IN IF n = 0
       THEN [raised |-> FALSE, upserts |-> <<>>, ret |-> 0]
       ELSE IF emb.raised
            THEN [raised |-> TRUE, upserts |-> <<>>, ret |-> 0]
            ELSE [raised |-> FALSE,
                  upserts |-> <<[ids |-> ids, documents |-> contents,
                                 embeddings |-> emb.ret, metadatas |-> metadatas]>>,
                  ret |-> IF EngineRejects(ids, contents, emb.ret, metadatas)
                          THEN 0 ELSE Len(ids)]

\* embed_texts(texts) is called
ApplyEmbedTexts ==
    /\ pin.kind = "embed_texts"
    /\ pout = NoPure
    /\ pout' = [kind |-> "embed_texts", out |-> embed_texts(EmbedTexts(pin), pin.fail_at)]
    /\ UNCHANGED <<fs, store, clock, run, prev, budget, qres, pin>>

\* the collected chunks are embedded and upserted
ApplyEmbedAndUpsert ==
    /\ pin.kind = "embed_and_upsert"
    /\ pout = NoPure
    /\ pout' = [kind |-> "embed_and_upsert",
                out |-> EmbedAndUpsert(CollectedChunks(pin), pin.fail_at)]
    /\ UNCHANGED <<fs, store, clock, run, prev, budget, qres, pin>>

NextEmbed ==
    \/ ApplyEmbedTexts
    \/ ApplyEmbedAndUpsert

SpecEmbed == InitEmbed /\ [][NextEmbed]_vars

(***************************************************************************)
(* Two sync runs against one collection with no single-flight lock: run    *)
(* is called while another run is in progress, their repository calls      *)
(* interleave, and the file may be rewritten meanwhile                     *)
(***************************************************************************)
ConcRuns == {1, 2}
MaxConcRuns == 3
ConcPath == "docs/a.txt"

InitConcurrent ==
    /\ fs \in [Paths -> FileStates]
    /\ fs["up/b.txt"] = NoFile
    /\ store = EmptyStore
    /\ clock = 0
    /\ run = [r \in ConcRuns |-> IdleRun]
    /\ prev = NoPrev
    /\ budget = [runs |-> MaxConcRuns, events |-> MaxEvents]
    /\ qres = NoResult
    /\ pin = NoPure
    /\ pout = NoPure

NextConcurrent ==
    \/ \E r \in ConcRuns : StartRun(r, ".", "system")
    \/ \E r \in ConcRuns : RunStep(r, TRUE)
    \/ \E m \in MTimes, s \in Sizes : WriteFile(ConcPath, m, s)
    \/ RemoveFile(ConcPath)

SpecConcurrent == InitConcurrent /\ [][NextConcurrent]_vars

(***************************************************************************)
(* Properties                                                              *)
(***************************************************************************)

\* the id process_document gives chunk k of the file now at path p
IdOf(p, k) == Sha1(IdSource(fs[p].mtime, fs[p].size, k))

\* every chunk of the file now at p is stored under p
FullyIndexed(st, p) ==
    \A k \in 0..(SplitCount(get_file_info(p)) - 1) :
        /\ IdOf(p, k) \in DOMAIN st
        /\ st[IdOf(p, k)].metadata.source = p

\* a run that met no failure of any collaborator and has returned
CleanDone(rr) == rr.pc = "done" /\ Failures(rr) = {}

\* C1: a sync run that follows a completed, failure-free run on the same
\* target with no file system change in between computes an empty diff:
\* nothing added, nothing updated, nothing deleted.
C1_IdempotentResync ==
    \A r \in Runs :
        LET rr == run[r] IN
        (/\ rr.pc \in Diffed
         /\ rr.prev.kind = "done" /\ rr.prev.clean /\ rr.prev.target = rr.target
         /\ rr.faults \cap {"scan", "tree"} = {})
        => /\ rr.files_to_add = <<>>
           /\ rr.files_to_update = <<>>
           /\ rr.files_to_delete = <<>>

\* the run's diff holds exactly one updated file p, whose stored chunks all
\* record an mtime and a size different from the file's
OneFileModified(rr, p) ==
    /\ rr.files_to_update = <<p>>
    /\ rr.files_to_add = <<>>
    /\ rr.files_to_delete = <<>>
    /\ IdsOfSource(rr.store0, p) # {}
    /\ \A x \in IdsOfSource(rr.store0, p) :
          /\ rr.store0[x].metadata.file_mtime # fs[p].mtime
          /\ rr.store0[x].metadata.file_size # fs[p].size

\* C2: when a failure-free run finds one indexed file modified in mtime and
\* size, exactly the ids stored for that file are deleted, the file's new
\* chunk ids are stored under it, and each untouched sibling keeps its
\* stored chunks (ids, content, metadata) unchanged.
C2_ChangeDetection ==
    \A r \in Runs : \A p \in Paths :
        LET rr == run[r] IN
        (CleanDone(rr) /\ OneFileModified(rr, p))
        => /\ rr.deleted_ids = IdsOfSource(rr.store0, p)
           /\ FullyIndexed(store, p)
           /\ \A q \in IndexedSources(rr.store0) \ {p} :
                 \A x \in IdsOfSource(rr.store0, q) :
                    x \in DOMAIN store /\ store[x] = rr.store0[x]

\* C3: a failure-free run deletes every stored chunk whose source is a file
\* removed from the directory, and deletes no chunk of any file that is
\* still there and was not modified.
C3_Deletion ==
    \A r \in Runs :
        LET rr == run[r] IN
        (CleanDone(rr) /\ \E p \in Paths : ~fs[p].exists /\ IdsOfSource(rr.store0, p) # {})
        => /\ \A p \in Paths :
                 (~fs[p].exists /\ IdsOfSource(rr.store0, p) # {})
                 => /\ IdsOfSource(rr.store0, p) \subseteq rr.deleted_ids
                    /\ IdsOfSource(store, p) = {}
           /\ \A x \in rr.deleted_ids :
                 \/ ~fs[rr.store0[x].metadata.source].exists
                 \/ rr.store0[x].metadata.source \in Range(rr.files_to_update)

\* C4: whatever entry point answers a query asked for a session, every
\* returned chunk belongs to that session or to "system".
C4_ScopeIsolation ==
    qres.entry # "none"
    => \A d \in qres.docs : d.metadata.session_id \in {"system", qres.session_id}

\* C5: the three lists of a diff are duplicate free and pairwise disjoint;
\* added holds the local paths absent from the indexed state, deleted the
\* indexed paths absent from the local state, updated the common paths whose
\* mtime or size differs, and a common path with equal mtime and size is in
\* none of them.
C5_DiffSets ==
    pout.kind = "diff"
    => LET l == pin.local_state
           d == pin.db_state
           A == Range(pout.diff.added)
           U == Range(pout.diff.updated)
           D == Range(pout.diff.deleted)
       IN /\ Len(pout.diff.added) = Cardinality(A)
          /\ Len(pout.diff.updated) = Cardinality(U)
          /\ Len(pout.diff.deleted) = Cardinality(D)
          /\ A \cap U = {} /\ A \cap D = {} /\ U \cap D = {}
          /\ \A p \in DiffPaths :
                /\ p \in A <=> (p \in DOMAIN l /\ p \notin DOMAIN d)
                /\ p \in D <=> (p \in DOMAIN d /\ p \notin DOMAIN l)
                /\ p \in U <=> (/\ p \in DOMAIN l /\ p \in DOMAIN d
                                /\ l[p] # d[p])
                /\ (p \in DOMAIN l /\ p \in DOMAIN d /\ l[p] = d[p])
                   => p \notin A \cup U \cup D

C5_Witness ==
    /\ pout.kind = "diff"
    /\ pout.diff.added # <<>>
    /\ pout.diff.deleted # <<>>
    /\ pout.diff.updated # <<>>

\* the (file_mtime, file_size, chunk index) of a processed chunk
Triple(c) == <<c.file_mtime, c.file_size, c.idx>>

\* C6: two chunks processed with the same file_mtime, file_size and chunk
\* index get the same id, whatever the ingestion time, the session and the
\* chunk content.
C6_IdDeterministic ==
    (pout.kind = "ids" /\ Triple(pin.x) = Triple(pin.y)) => pout.x.id = pout.y.id

C6_Witness ==
    /\ pout.kind = "ids"
    /\ Triple(pin.x) = Triple(pin.y)
    /\ pin.x.now # pin.y.now
    /\ pin.x.session_id # pin.y.session_id
    /\ pin.x.content # pin.y.content
    /\ pout.x.id = pout.y.id

\* C7: two chunks whose file_mtime, file_size or chunk index differ get
\* different ids.
C7_IdInjective ==
    (pout.kind = "ids" /\ Triple(pin.x) # Triple(pin.y)) => pout.x.id # pout.y.id

C7_Witness ==
    /\ pout.kind = "ids"
    /\ Triple(pin.x) = <<1, 1, MaxIdx>>
    /\ Triple(pin.y) = <<1, MaxIdSize, 0>>
    /\ pout.x.id # pout.y.id

\* C8: in the run that follows a terminated run on the same target with no
\* file system change, every file of the target whose chunks are not all
\* stored is in the added or the updated list, and when that run ends
\* without failure every file of the target is fully indexed.
C8_ResumeAfterKill ==
    \A r \in Runs :
        LET rr == run[r] IN
        (/\ rr.pc \in Diffed
         /\ rr.prev.kind = "killed" /\ rr.prev.target = rr.target
         /\ rr.faults \cap {"scan", "tree"} = {})
        => /\ \A p \in Paths :
                 (fs[p].exists /\ InTarget(p, rr.target) /\ ~FullyIndexed(rr.store0, p))
                 => p \in Range(rr.files_to_add) \cup Range(rr.files_to_update)
           /\ CleanDone(rr)
              => \A p \in Paths :
                    (fs[p].exists /\ InTarget(p, rr.target)) => FullyIndexed(store, p)

\* the files of the run whose load succeeded
Loaded(rr) == Range(files_to_process(rr)) \ rr.failed_files

\* C9: when the load of a file fails in a run whose embedding and store
\* calls succeed, the run still returns a summary, and every other file to
\* process was loaded, every chunk of the version that was loaded is in the
\* batch that was embedded and upserted, under the id of the stat that was
\* read, and is stored.
C9_PartialFailure ==
    \A r \in Runs :
        LET rr == run[r] IN
        (/\ rr.pc \in {"done", "raised"}
         /\ rr.failed_files # {}
         /\ rr.faults \cap {"embed", "upsert", "duplicate"} = {})
        => /\ rr.pc = "done"
           /\ \A p \in Loaded(rr) :
                 /\ p \in DOMAIN rr.loaded
                 /\ \A k \in 0..(SplitCount(rr.loaded[p].loaded) - 1) :
                       LET id == Sha1(IdSource(rr.loaded[p].info.file_mtime,
                                               rr.loaded[p].info.file_size, k))
                       IN /\ \E j \in DOMAIN rr.all_chunks_to_upsert :
                                /\ rr.all_chunks_to_upsert[j].metadata.source = p
                                /\ rr.all_chunks_to_upsert[j].metadata.chunk_id = k
                                /\ rr.all_chunks_to_upsert[j].id = id
                                /\ rr.embeddings[j] =
                                      Embed(Clean(rr.all_chunks_to_upsert[j].content))
                          /\ id \in DOMAIN store
           /\ rr.summary.chunks_added = Len(rr.all_chunks_to_upsert)

C9_Witness ==
    \E r \in Runs :
        /\ run[r].pc = "done"
        /\ run[r].failed_files # {}
        /\ run[r].faults \cap {"upsert", "duplicate"} = {}
        /\ \E p \in Loaded(run[r]) : fs[p].size > 0 /\ FullyIndexed(store, p)

\* C10: a run whose upsert_batch call failed does not return a summary: it
\* ends by raising, and claims no file or chunk as added.
C10_UpsertFailureIsExplicit ==
    \A r \in Runs :
        ("upsert" \in run[r].faults /\ run[r].pc \in Ended) => run[r].pc = "raised"

\* the records the run wrote: those stamped with the run's ingestion time
WrittenBy(st, rr) == {x \in DOMAIN st : st[x].metadata.ingested_at[1] = rr.now}

\* C11: a run whose embed_texts call failed ends by raising, not with a
\* summary, and has written no record; and every stored record holds the
\* embedding of its own document.
C11_EmbeddingFailurePropagates ==
    /\ \A r \in Runs :
          "embed" \in run[r].faults
          => /\ run[r].pc = "raised"
             /\ WrittenBy(store, run[r]) = {}
    /\ \A x \in DOMAIN store : store[x].embedding = Embed(Clean(store[x].document))

C11_Witness ==
    \E r \in Runs :
        /\ "embed" \in run[r].faults
        /\ run[r].pc = "raised"
        /\ Len(run[r].all_chunks_to_upsert) = 2
        /\ store # EmptyStore

\* C12: a run in which a delete_by_source call failed is over at once,
\* ended by the exception: it does not continue, returns no summary and
\* writes no record.
C12_DeleteFailurePropagates ==
    \A r \in Runs :
        "delete" \in run[r].faults
        => /\ run[r].pc = "raised"
           /\ WrittenBy(store, run[r]) = {}

\* the batch of the call is well formed and holds two entries with the same
\* non-empty id and different content
TwoEntriesOneId(in) ==
    /\ in.cut = "none"
    /\ Len(in.entries) = 2
    /\ in.entries[1].id = in.entries[2].id
    /\ in.entries[1].id # ""
    /\ in.entries[1].document # in.entries[2].document

\* C13: an upsert_batch call whose batch holds two entries with the same id
\* and different content succeeds and leaves one record under that id, with
\* the document, embedding and metadata of the later entry, and every other
\* record as it was.
C13_LastWriteWins ==
    (pout.kind = "upsert_batch" /\ TwoEntriesOneId(pin))
    => LET id == pin.entries[2].id IN
       /\ ~pout.raised
       /\ DOMAIN pout.st = DOMAIN pin.st \cup {id}
       /\ pout.st[id] = RepoRecord(pin.entries[2].document, pin.entries[2].source)
       /\ \A x \in DOMAIN pin.st \ {id} : pout.st[x] = pin.st[x]

\* C15: delete_by_source(path) removes every record whose source is path,
\* keeps every other record unchanged and returns the number of records it
\* removed; with no record of that source it returns 0 and changes nothing.
C15_DeleteBySource ==
    pout.kind = "delete_by_source"
    => /\ ~pout.raised
       /\ IdsOfSource(pout.st, pin.source) = {}
       /\ DOMAIN pout.st = DOMAIN pin.st \ IdsOfSource(pin.st, pin.source)
       /\ \A x \in DOMAIN pout.st : pout.st[x] = pin.st[x]
       /\ pout.ret = Cardinality(DOMAIN pin.st \ DOMAIN pout.st)
       /\ IdsOfSource(pin.st, pin.source) = {} => (pout.ret = 0 /\ pout.st = pin.st)

C15_Witness ==
    /\ pout.kind = "delete_by_source"
    /\ Cardinality(DOMAIN pin.st) = 2
    /\ pout.ret = 1
    /\ Cardinality(DOMAIN pout.st) = 1

\* C16: a delete_by_ids call that returns gives the number of records it
\* removed from the store, and for an empty list it returns 0 and changes
\* nothing.
C16_DeleteByIdsCount ==
    (pout.kind = "delete_by_ids" /\ ~pout.raised)
    => /\ pout.ret = Cardinality(DOMAIN pin.st \ DOMAIN pout.st)
       /\ Len(pin.ids) = 0 => (pout.ret = 0 /\ pout.st = pin.st)

\* the argument lists of the upsert_batch call are of unequal length, or an
\* id is the empty string
MalformedBatch(in) ==
    \/ in.cut # "none" /\ Len(in.entries) > 0
    \/ "" \in Range(BatchIds(in))

\* C17: upsert_batch called with lists of unequal length or with an empty
\* id, and query_similar called with an empty vector or a top_k that is not
\* positive, raise and leave the store as it was.
C17_MalformedInputRejected ==
    /\ (pout.kind = "upsert_batch" /\ MalformedBatch(pin))
       => (pout.raised /\ pout.st = pin.st)
    /\ (pout.kind = "query_similar" /\ (Len(pin.query_vector) = 0 \/ pin.top_k <= 0))
       => (pout.raised /\ pout.st = pin.st)

\* C20: ingest_chunks returns the number of chunks given, has passed them to
\* upsert_batch in consecutive batches of at most batch_size chunks, each
\* chunk once, and starting from an empty repository with distinct ids the
\* store then holds that many records.
C20_IngestChunks ==
    pout.kind = "ingest_chunks"
    => /\ ~pout.raised
       /\ pout.ret = Len(pin.chunks)
       /\ \A k \in DOMAIN pout.calls : Len(pout.calls[k]) <= pin.batch_size
       /\ Len(pin.chunks) > 0 =>
             /\ Len(pout.calls) > 0
             /\ \A k \in DOMAIN pout.calls : Len(pout.calls[k]) > 0
       /\ ~HasDuplicates([k \in 1..Len(pin.chunks) |-> pin.chunks[k].id])
          => Cardinality(DOMAIN pout.st) = pout.ret

\* C14: every map get_indexed_file_state can return has exactly the sources
\* of the stored records as its keys, and the (mtime, size) of a source
\* equals the file_mtime and file_size of every stored record of that source.
C14_IndexedStateConsistent ==
    \A f \in IndexedFileStates(store) :
        /\ DOMAIN f = IndexedSources(store)
        /\ \A s \in DOMAIN f : \A x \in IdsOfSource(store, s) :
              /\ f[s].mtime = store[x].metadata.file_mtime
              /\ f[s].size = store[x].metadata.file_size

\* C18: a RagPipeline.query call whose embedding call failed ends by raising
\* the exception to its caller, and returns no result.
C18_QueryEmbeddingFailurePropagates ==
    (qres.entry = "pipeline" /\ qres.failed) => (qres.raised /\ ~qres.error)

\* the stored records of the sources other than p belong to files that exist
\* and carry the current mtime and size of their file
OthersUntouched(rr, p) ==
    \A x \in DOMAIN rr.store0 :
        LET q == rr.store0[x].metadata.source IN
        q # p => /\ fs[q].exists
                 /\ rr.store0[x].metadata.file_mtime = fs[q].mtime
                 /\ rr.store0[x].metadata.file_size = fs[q].size

\* C19: the summary of a run gives as chunks_added the number of records the
\* run wrote and as chunks_deleted the number it removed; a run that finds
\* one indexed file removed and the others untouched reports one deleted
\* file and that file's chunks as deleted; and a run that follows a
\* failure-free run on the same target with no change reports no file added
\* or updated.
C19_SummaryCounts ==
    \A r \in Runs :
        LET rr == run[r] IN
        rr.pc = "done"
        => /\ rr.summary.chunks_added = Cardinality(WrittenBy(store, rr))
           /\ rr.summary.chunks_deleted = Cardinality(rr.deleted_ids)
           /\ \A p \in Paths :
                 (/\ CleanDone(rr)
                  /\ ~fs[p].exists
                  /\ IdsOfSource(rr.store0, p) # {}
                  /\ OthersUntouched(rr, p))
                 => /\ rr.summary.files_deleted = 1
                    /\ rr.summary.chunks_deleted = Cardinality(IdsOfSource(rr.store0, p))
           /\ (/\ rr.prev.kind = "done" /\ rr.prev.clean /\ rr.prev.target = rr.target
               /\ rr.faults \cap {"scan", "tree"} = {})
              => (rr.summary.files_added = 0 /\ rr.summary.files_updated = 0)

\* C21 as stated: of two distances the smaller has the strictly greater
\* similarity, the similarity of distance 0 is 1, and every similarity lies
\* in (0, 1].
C21_SimilarityStrictAndPositive ==
    pout.kind = "similarity"
    => /\ DistLess(pin.d1, pin.d2) => SimGreater(pout.s1, pout.s2)
       /\ pin.d1.n = 0 => SimEqual(pout.s1, SimOne)
       /\ ~SimGreater(pout.s1, SimOne) /\ SimGreater(pout.s1, SimZero)

\* C21 as amended: of two distances the smaller never has the smaller
\* similarity, the similarity of distance 0 is 1, and every similarity lies
\* in [0, 1].
C21_SimilarityMonotoneBounded ==
    pout.kind = "similarity"
    => /\ DistLess(pin.d1, pin.d2) => ~SimGreater(pout.s2, pout.s1)
       /\ pin.d1.n = 0 => SimEqual(pout.s1, SimOne)
       /\ ~SimGreater(pout.s1, SimOne) /\ ~SimGreater(SimZero, pout.s1)

\* the distances 744.2 and 745.0 both get the smallest positive double
C21_Witness ==
    /\ pout.kind = "similarity"
    /\ pin.d1 = Tenth(7442)
    /\ pin.d2 = Tenth(7450)
    /\ SimEqual(pout.s1, pout.s2)
    /\ SimGreater(pout.s1, SimZero)

\* the stored records of source p disagree on the (mtime, size) of the file
MixedVersions(st, p) ==
    \E x, y \in IdsOfSource(st, p) :
        \/ st[x].metadata.file_mtime # st[y].metadata.file_mtime
        \/ st[x].metadata.file_size # st[y].metadata.file_size

\* C22: when a run is about to write its chunks, the store holds no record
\* of any file it writes, and in no state do the records of one source
\* carry two different (mtime, size) versions.
C22_DeleteBeforeWrite ==
    /\ \A r \in Runs :
          run[r].pc = "upsert"
          => \A k \in DOMAIN run[r].all_chunks_to_upsert :
                IdsOfSource(store, run[r].all_chunks_to_upsert[k].metadata.source) = {}
    /\ \A p \in Paths : ~MixedVersions(store, p)

\* C23: two chunks processed from different source files get different ids.
C23_DistinctFilesDistinctIds ==
    (pout.kind = "ids" /\ pin.x.relpath # pin.y.relpath) => pout.x.id # pout.y.id

\* C24: every record a run has deleted belonged to a file under the run's
\* target path.
C24_DeletesOnlyUnderTarget ==
    \A r \in Runs :
        \A x \in run[r].deleted_ids :
            InTarget(run[r].store0[x].metadata.source, run[r].target)

\* C25: when a run that met no scan, load, embedding or store failure has
\* returned, the indexed file state is the scanned local state, and every
\* scanned file has all its chunks stored.
C25_Convergence ==
    \A r \in Runs :
        LET rr == run[r] IN
        CleanDone(rr)
        => /\ \A f \in IndexedFileStates(store) : f = get_local_file_state(rr.target, {})
           /\ \A p \in DOMAIN get_local_file_state(rr.target, {}) :
                 /\ FullyIndexed(store, p)
                 /\ Cardinality(IdsOfSource(store, p)) = SplitCount(get_file_info(p))

\* C26: when a run in which the load of an updated file failed has returned,
\* the records the store held for that file before the run are still there,
\* unchanged.
C26_FailedUpdateKeepsChunks ==
    \A r \in Runs :
        LET rr == run[r] IN
        rr.pc = "done"
        => \A p \in rr.failed_files \cap Range(rr.files_to_update) :
              \A x \in IdsOfSource(rr.store0, p) :
                 x \in DOMAIN store /\ store[x] = rr.store0[x]

\* C27: a file that exists under the target path, in a tree that did not
\* change since the run began, is never in the deleted list of the run,
\* whether the scan could stat it or not.
C27_UnreadableFileNotDeleted ==
    \A r \in Runs :
        "tree" \notin run[r].faults
        => \A p \in Range(run[r].files_to_delete) :
              ~(fs[p].exists /\ InTarget(p, run[r].target))

\* C28: every upsert_batch call of the embed-and-upsert tail has four lists
\* of one length, and its i-th embedding is the vector of its i-th document,
\* whatever the number of chunks and whether or not some are blank.
C28_UpsertListsAligned ==
    pout.kind = "embed_and_upsert"
    => \A c \in 1..Len(pout.out.upserts) :
          LET u == pout.out.upserts[c] IN
          /\ Len(u.documents) = Len(u.ids)
          /\ Len(u.embeddings) = Len(u.ids)
          /\ Len(u.metadatas) = Len(u.ids)
          /\ \A i \in 1..Len(u.documents) :
                /\ i <= Len(u.embeddings)
                /\ u.embeddings[i] = Embed(Clean(u.documents[i]))

\* the c-th slice of EMBEDDING_BATCH_SIZE consecutive texts, as sent
SentSlice(texts, c) ==
    LET lo == (c - 1) * EMBEDDING_BATCH_SIZE + 1
        hi == Min(c * EMBEDDING_BATCH_SIZE, Len(texts))
    IN [k \in 1..(hi - lo + 1) |-> Clean(texts[lo + k - 1])]

\* the lists of a sequence of lists, one after the other
RECURSIVE Concat(_)
Concat(ss) == IF ss = <<>> THEN <<>> ELSE Head(ss) \o Concat(Tail(ss))

\* C29: for any list of texts, when the provider does not fail, embed_texts
\* returns for a non-empty list, its provider calls are the consecutive
\* slices of at most EMBEDDING_BATCH_SIZE texts (every text in exactly one),
\* and it returns the vectors of the calls, concatenated in call order.
C29_BatchesPartitionTexts ==
    (pout.kind = "embed_texts" /\ pin.fail_at = 0)
    => LET texts == EmbedTexts(pin)
           out == pout.out
           sent == Concat(out.calls)
       IN /\ texts # <<>> => ~out.raised
          /\ ~out.raised
             => /\ Len(out.calls) = MaxCalls(Len(texts))
                /\ \A c \in 1..Len(out.calls) :
                      /\ Len(out.calls[c]) <= EMBEDDING_BATCH_SIZE
                      /\ out.calls[c] = SentSlice(texts, c)
                /\ out.ret = [k \in 1..Len(sent) |-> Embed(sent[k])]

\* the records of source p with one (mtime, size) are not the whole chunk
\* set of that version of the file
PartialSet(st, p) ==
    \E x \in IdsOfSource(st, p) :
        Cardinality({y \in IdsOfSource(st, p) :
                        /\ st[y].metadata.file_mtime = st[x].metadata.file_mtime
                        /\ st[y].metadata.file_size = st[x].metadata.file_size})
            # SplitCount([file_mtime |-> st[x].metadata.file_mtime,
                          file_size |-> st[x].metadata.file_size])

\* the stored chunk set of p mixes versions or is partial
MixedState(st, p) == MixedVersions(st, p) \/ PartialSet(st, p)

\* C30 (runs that never overlap): when a run has returned, no file's stored
\* chunk set mixes old and new versions or is partial.
C30_SequentialRunsEndUnmixed ==
    \A r \in Runs :
        run[r].pc = "done" => \A p \in Paths : ~MixedState(store, p)

\* C30 (interleaved runs): both runs have returned and the stored chunk set
\* of the file mixes two versions.
C30_InterleavedMixed ==
    /\ \A r \in ConcRuns : run[r].pc = "done"
    /\ MixedState(store, ConcPath)

====
